---- MODULE Spec2Model ----
(***************************************************************************)
(* Beacon identity protocol: brain-wallet key derivation (lib/crypto),     *)
(* register / login (lib/identity), the OrbitDB registry wrapper           *)
(* (lib/registry) and the useIdentity session hook.                        *)
(*                                                                         *)
(* Every awaited call of the source is a step of its own: the effect of a  *)
(* db.get / db.put on the store happens at one instant between the call    *)
(* and the resumption of the awaiting function, and the synchronous code   *)
(* that follows an await (up to the next await) runs in the step of the    *)
(* operation that resolves it.  Calls made from the UI are the call slots  *)
(* of Calls; any number of them may be in flight at once.                  *)
(***************************************************************************)
EXTENDS Integers, Sequences, FiniteSets, TLC

\* ------------------------------------------------------------------ bounds
NumCalls == 3
NumPasswords == 2

Calls == 1..NumCalls
Passwords == 1..NumPasswords
\* The empty string is a password like any other to register and login, which
\* never inspect the password: it is the first of the passwords.
EmptyPassword == 1
\* The store is keyed by username and no operation reads or writes two keys:
\* the calls contend for one username.
Usernames == {"alice"}

\* An optional value (T | null): the empty sequence is null.
None == <<>>
Some(x) == <<x>>
IsSome(o) == o # <<>>
Get(o) == o[1]

\* ------------------- lib/crypto.ts (second half of hooks/useHeliaNode.ts)
\* uint8arrays toString / fromString: an encoding wraps the bytes it encodes.
ToHex(bytes) == [base16 |-> bytes]
FromHex(hex) == hex.base16
ToBase64(bytes) == [base64 |-> bytes]
FromBase64(b64) == b64.base64
TextEncode(password) == [utf8 |-> password]

\* hash-wasm argon2id with ARGON2_CONFIG, outputType 'hex': a collision-free
\* function of (password bytes, salt bytes).
Argon2id(passwordBytes, saltBytes) ==
    ToHex([argon2id |-> [password |-> passwordBytes, salt |-> saltBytes]])

GenerateEd25519FromSeed(seed) ==
    [publicKey |-> [ed25519pub |-> seed], privateKey |-> [ed25519priv |-> seed]]

\* Mutant: the username is mixed into the hash input.
DeriveKeyPairOfUsername(username, password, salt) ==
    LET saltBytes == FromBase64(salt)
        passwordBytes == TextEncode(<<username, password>>)
        hashHex == Argon2id(passwordBytes, saltBytes)
        seed == FromHex(hashHex)
    IN  GenerateEd25519FromSeed(seed)

DeriveKeyPair(username, password, salt) ==
    LET saltBytes == FromBase64(salt)
        passwordBytes == TextEncode(password)
        hashHex == Argon2id(passwordBytes, saltBytes)
        seed == FromHex(hashHex)
    IN  GenerateEd25519FromSeed(seed)

\* generateSalt: 16 bytes of crypto.getRandomValues, base64-encoded.  Random
\* salts do not repeat: the bytes drawn by call c are named by c.
GenerateSalt(c) == ToBase64([random |-> c])

\* Date.now() as read by call c: createdAt is stored and never compared, so
\* the instant is named by the call that read it.
DateNow(c) == [now |-> c]

\* ------------------------------------------------------ lib/identity.ts
ErrUsernameTaken == "Username already taken"
\* Mutant: the rejected claim reuses the lookup's message.
ErrClaimRejectedSame == "Username already taken"
ErrClaimRejected == "Failed to register (username may have been claimed)"
\* Mutant: the missing entry is reported as a wrong password.
ErrUsernameNotFoundAsInvalid == "Invalid password"
ErrUsernameNotFound == "Username not found"
ErrInvalidPassword == "Invalid password"
\* `this.db.put` on a null this.db.
ErrNullDb == "Cannot read properties of null (reading 'put')"
ErrNotInitialized == "Registry not initialized"

Failure(error) == [ok |-> FALSE, error |-> error, value |-> None]
Success(value) == [ok |-> TRUE, error |-> "", value |-> Some(value)]

IdentityState(username, keyPair, publicKeyHex) ==
    [username |-> username, keyPair |-> keyPair, publicKeyHex |-> publicKeyHex]

RegistryEntry(publicKeyHex, salt, createdAt) ==
    [publicKey |-> publicKeyHex, salt |-> salt, profileCid |-> None,
     createdAt |-> createdAt]

\* shortKey: the first characters of the hex string of the key.
ShortKey(publicKey) == [short |-> ToHex(publicKey)]

\* Mutant: the hex string is taken from the private key.
PublicKeyHexOfPrivate(keyPair) == ToHex(keyPair.privateKey)
\* register, login: `toHex(keyPair.publicKey)`.
PublicKeyHex(keyPair) == ToHex(keyPair.publicKey)

\* Mutant: register ignores what its lookup found.
RegisterLookupTakenNever(existing) == FALSE
\* register: `if (existing)` after the lookup.
RegisterLookupTaken(existing) == IsSome(existing)

\* Mutant: login derives with a newly generated salt.
LoginSaltRegenerated(entry) == ToBase64([random |-> 0])
\* login: the salt handed to deriveKeyPair.
LoginSalt(entry) == entry.salt

\* login: `publicKeyHex !== entry.publicKey` decides the result.
LoginKeysMatch(publicKeyHex, entry) == publicKeyHex = entry.publicKey

\* ------------------------------------------------------ lib/registry.ts
\* Registry.register: `if (existing)` after db.get.
RegistryExists(existing) == IsSome(existing)

VARIABLES
    store,      \* the key-value store behind Registry.db: username -> entry | null
    db,         \* Registry.db is a handle (TRUE) or null (FALSE)
    identity,   \* useIdentity's session state: IdentityState | null
    calls,      \* the register / login calls: position and locals of each
    nputs,      \* history: number of db.put effects so far
    orbitdb,    \* Registry.orbitdb is an instance (TRUE) or null (FALSE)
    initpc,     \* position of the Registry.init call
    stoppc,     \* position of the Registry.stop call
    derivs,     \* deriveKeyPair calls made on their own: position and locals
    hook,       \* useHeliaNode state, its effect's position, App's modal flag
    overtaken   \* history: the calls that were in flight when logout ran

registryVars == <<orbitdb, initpc, stoppc>>
vars ==
    <<store, db, identity, calls, nputs, orbitdb, initpc, stoppc, derivs, hook,
      overtaken>>

\* useHeliaNode before its effect has run: the useState initial values.
HookNew ==
    [pc |-> "idle", helia |-> FALSE, isReady |-> FALSE, registryReady |-> FALSE,
     error |-> FALSE, peerId |-> FALSE, mounted |-> TRUE, closureHelia |-> FALSE,
     heliaStopped |-> FALSE, showIdentityModal |-> FALSE]
\* useHeliaNode after initNode has run to its end, and the modal opened.
HookReady ==
    [pc |-> "done", helia |-> TRUE, isReady |-> TRUE, registryReady |-> TRUE,
     error |-> FALSE, peerId |-> TRUE, mounted |-> TRUE, closureHelia |-> FALSE,
     heliaStopped |-> FALSE, showIdentityModal |-> TRUE]

IdleCall ==
    [op |-> "none", pc |-> "idle", username |-> "", password |-> 0,
     existing |-> None, salt |-> None, keyPair |-> None, entry |-> None,
     result |-> None, thrown |-> None,
     after |-> {}, puts |-> 0,
     steps |-> <<>>, wrote |-> <<>>, cancelled |-> FALSE]

Init ==
    /\ store = [u \in Usernames |-> None]
    /\ db = TRUE
    /\ identity = None
    /\ calls = [c \in Calls |-> IdleCall]
    /\ nputs = 0
    /\ orbitdb = TRUE
    /\ initpc = "done"
    /\ stoppc = "idle"
    /\ derivs = <<>>
    /\ hook = HookReady
    /\ overtaken = {}

Done(c) == calls[c].pc = "done"
Finished == {c \in Calls : Done(c)}
InFlight == {c \in Calls : calls[c].pc \notin {"idle", "done"}}

\* Call slots are interchangeable: they are taken in order.
CanStart(c) ==
    /\ calls[c].pc = "idle"
    /\ \A d \in Calls : d < c => calls[d].pc # "idle"

\* Passwords are only ever compared for equality (through the keys derived
\* from them), so a call's password is drawn up to renaming: one already used
\* by an earlier call, or the first one not used yet.
Started == {c \in Calls : calls[c].pc # "idle"}
ArgPasswords ==
    {p \in Passwords :
        \A q \in Passwords : q < p => \E c \in Started : calls[c].password = q}

\* KeyValueStore.get / put on the store.
DbGet(u) == store[u]
DbPut(u, entry) == [store EXCEPT ![u] = Some(entry)]

\* useIdentity.register -> identity.register -> lookupFn -> Registry.lookup,
\* up to `await this.db.get(username)`.
RegisterStart(c, u, p) ==
    /\ CanStart(c)
    /\ calls' = [calls EXCEPT ![c] =
          IF db
          THEN [@ EXCEPT !.op = "register", !.username = u, !.password = p,
                         !.after = Finished, !.steps = <<"lookup">>,
                         !.pc = "lookup"]
          ELSE [@ EXCEPT !.op = "register", !.username = u, !.password = p,
                         !.after = Finished, !.steps = <<"lookup">>,
                         !.pc = "done",
                         !.thrown = Some(ErrNotInitialized)]]
    /\ UNCHANGED <<store, db, identity, nputs, registryVars, derivs, hook, overtaken>>

\* db.get of the lookup resolves; register goes on to generateSalt and calls
\* deriveKeyPair, or returns the failure.
RegisterLookup(c) ==
    /\ calls[c].op = "register"
    /\ calls[c].pc = "lookup"
    /\ LET existing == DbGet(calls[c].username) IN
       IF RegisterLookupTaken(existing)
       THEN calls' = [calls EXCEPT ![c] =
                [@ EXCEPT !.existing = existing, !.pc = "done",
                          !.result = Some(Failure(ErrUsernameTaken))]]
       ELSE calls' = [calls EXCEPT ![c] =
                [@ EXCEPT !.existing = existing, !.salt = Some(GenerateSalt(c)),
                          !.steps = @ \o <<"generateSalt", "deriveKeyPair">>,
                          !.pc = "derive"]]
    /\ UNCHANGED <<store, db, identity, nputs, registryVars, derivs, hook, overtaken>>

\* deriveKeyPair resolves; register builds the entry (createdAt: Date.now())
\* and calls writeFn -> Registry.register, up to `await this.db.get(username)`.
RegisterDerive(c) ==
    /\ calls[c].op = "register"
    /\ calls[c].pc = "derive"
    /\ LET now == DateNow(c)
           keyPair == DeriveKeyPair(calls[c].username, calls[c].password,
                                    Get(calls[c].salt))
           publicKeyHex == PublicKeyHex(keyPair)
           entry == RegistryEntry(publicKeyHex, Get(calls[c].salt), now)
       IN calls' = [calls EXCEPT ![c] =
              IF db
              THEN [@ EXCEPT !.keyPair = Some(keyPair), !.entry = Some(entry),
                             !.steps = @ \o <<"claim">>,
                             !.pc = "claim_get"]
              ELSE [@ EXCEPT !.keyPair = Some(keyPair), !.entry = Some(entry),
                             !.steps = @ \o <<"claim">>,
                             !.pc = "done", !.thrown = Some(ErrNotInitialized)]]
    /\ UNCHANGED <<store, db, identity, nputs, registryVars, derivs, hook, overtaken>>

\* Mutant: Registry.register puts the entry before it reports the username
\* as taken.
RegistryRegisterGetPutsAnyway(c) ==
    /\ calls[c].op = "register"
    /\ calls[c].pc = "claim_get"
    /\ LET existing == DbGet(calls[c].username) IN
       IF RegistryExists(existing)
       THEN /\ store' = DbPut(calls[c].username, Get(calls[c].entry))
            /\ nputs' = nputs + 1
            /\ calls' = [calls EXCEPT ![c] =
                  [@ EXCEPT !.pc = "done",
                            !.result = Some(Failure(ErrClaimRejected)),
                            !.wrote = @ \o <<<<calls[c].username,
                                               Get(calls[c].entry)>>>>]]
       ELSE /\ calls' = [calls EXCEPT ![c] = [@ EXCEPT !.pc = "claim_put"]]
            /\ UNCHANGED <<store, nputs>>
    /\ UNCHANGED <<db, identity, registryVars, derivs, hook, overtaken>>

\* Mutant: register calls writeFn once more when its claim was rejected.
RegistryRegisterGetRetry(c) ==
    /\ calls[c].op = "register"
    /\ calls[c].pc = "claim_get"
    /\ LET existing == DbGet(calls[c].username) IN
       calls' = [calls EXCEPT ![c] =
          IF RegistryExists(existing) /\ Len(calls[c].steps) < 5
          THEN [@ EXCEPT !.steps = @ \o <<"claim">>]
          ELSE IF RegistryExists(existing)
          THEN [@ EXCEPT !.pc = "done",
                         !.result = Some(Failure(ErrClaimRejected))]
          ELSE [@ EXCEPT !.pc = "claim_put"]]
    /\ UNCHANGED <<store, db, identity, nputs, registryVars, derivs, hook, overtaken>>

\* Registry.register: db.get resolves; `if (existing) return false`, which
\* register turns into its failure; otherwise `this.db.put` is called, which
\* is a TypeError when Registry.stop has set this.db to null meanwhile.
RegistryRegisterGet(c) ==
    /\ calls[c].op = "register"
    /\ calls[c].pc = "claim_get"
    /\ LET existing == DbGet(calls[c].username) IN
       calls' = [calls EXCEPT ![c] =
          IF RegistryExists(existing)
          THEN [@ EXCEPT !.pc = "done",
                         !.result = Some(Failure(ErrClaimRejected))]
          ELSE IF db
          THEN [@ EXCEPT !.pc = "claim_put"]
          ELSE [@ EXCEPT !.pc = "done", !.thrown = Some(ErrNullDb)]]
    /\ UNCHANGED <<store, db, identity, nputs, registryVars, derivs, hook, overtaken>>

\* Registry.register: the effect of db.put on the store.
RegistryRegisterPut(c) ==
    /\ calls[c].op = "register"
    /\ calls[c].pc = "claim_put"
    /\ store' = DbPut(calls[c].username, Get(calls[c].entry))
    /\ nputs' = nputs + 1
    /\ calls' = [calls EXCEPT ![c] =
          [@ EXCEPT !.pc = "claim_ret",
                    !.wrote = @ \o <<<<calls[c].username, Get(calls[c].entry)>>>>]]
    /\ UNCHANGED <<db, identity, registryVars, derivs, hook, overtaken>>

\* db.put resolves: Registry.register returns true, register returns ok and
\* useIdentity.register calls setIdentity(result.value).
RegisterReturn(c) ==
    /\ calls[c].op = "register"
    /\ calls[c].pc = "claim_ret"
    /\ LET value == IdentityState(calls[c].username, Get(calls[c].keyPair),
                                  Get(calls[c].entry).publicKey)
       IN /\ calls' = [calls EXCEPT ![c] =
                [@ EXCEPT !.pc = "done", !.result = Some(Success(value)),
                          !.puts = nputs]]
          /\ identity' = Some(value)
    /\ UNCHANGED <<store, db, nputs, registryVars, derivs, hook, overtaken>>

\* Mutant: Registry.lookup without its `if (!this.db) throw`.
LoginStartUnguarded(c, u, p) ==
    /\ CanStart(c)
    /\ calls' = [calls EXCEPT ![c] =
          [@ EXCEPT !.op = "login", !.username = u, !.password = p,
                    !.after = Finished, !.steps = <<"lookup">>,
                    !.pc = "lookup"]]
    /\ UNCHANGED <<store, db, identity, nputs, registryVars, derivs, hook, overtaken>>

\* useIdentity.login -> identity.login -> lookupFn -> Registry.lookup, up to
\* `await this.db.get(username)`.
LoginStart(c, u, p) ==
    /\ CanStart(c)
    /\ calls' = [calls EXCEPT ![c] =
          IF db
          THEN [@ EXCEPT !.op = "login", !.username = u, !.password = p,
                         !.after = Finished, !.steps = <<"lookup">>,
                         !.pc = "lookup"]
          ELSE [@ EXCEPT !.op = "login", !.username = u, !.password = p,
                         !.after = Finished, !.steps = <<"lookup">>,
                         !.pc = "done",
                         !.thrown = Some(ErrNotInitialized)]]
    /\ UNCHANGED <<store, db, identity, nputs, registryVars, derivs, hook, overtaken>>

\* db.get of the lookup resolves; login returns 'Username not found' or calls
\* deriveKeyPair with the salt of the entry.
LoginLookup(c) ==
    /\ calls[c].op = "login"
    /\ calls[c].pc = "lookup"
    /\ LET entry == DbGet(calls[c].username) IN
       calls' = [calls EXCEPT ![c] =
          IF ~IsSome(entry)
          THEN [@ EXCEPT !.existing = entry, !.puts = nputs, !.pc = "done",
                         !.result = Some(Failure(ErrUsernameNotFound))]
          ELSE [@ EXCEPT !.existing = entry, !.puts = nputs,
                         !.salt = Some(LoginSalt(Get(entry))),
                         !.steps = @ \o <<"deriveKeyPair">>,
                         !.pc = "derive"]]
    /\ UNCHANGED <<store, db, identity, nputs, registryVars, derivs, hook, overtaken>>

\* Mutant: useIdentity.login clears the session when login fails.
LoginDeriveClearsSession(c) ==
    /\ calls[c].op = "login"
    /\ calls[c].pc = "derive"
    /\ LET keyPair == DeriveKeyPair(calls[c].username, calls[c].password,
                                    Get(calls[c].salt))
           publicKeyHex == PublicKeyHex(keyPair)
           value == IdentityState(calls[c].username, keyPair, publicKeyHex)
       IN IF LoginKeysMatch(publicKeyHex, Get(calls[c].existing))
          THEN /\ calls' = [calls EXCEPT ![c] =
                     [@ EXCEPT !.keyPair = Some(keyPair), !.pc = "done",
                               !.result = Some(Success(value))]]
               /\ identity' = Some(value)
          ELSE /\ calls' = [calls EXCEPT ![c] =
                     [@ EXCEPT !.keyPair = Some(keyPair), !.pc = "done",
                               !.result = Some(Failure(ErrInvalidPassword))]]
               /\ identity' = None
    /\ UNCHANGED <<store, db, nputs, registryVars, derivs, hook, overtaken>>

\* deriveKeyPair resolves; login compares the keys and returns; on ok
\* useIdentity.login calls setIdentity(result.value).
LoginDerive(c) ==
    /\ calls[c].op = "login"
    /\ calls[c].pc = "derive"
    /\ LET keyPair == DeriveKeyPair(calls[c].username, calls[c].password,
                                    Get(calls[c].salt))
           publicKeyHex == PublicKeyHex(keyPair)
           value == IdentityState(calls[c].username, keyPair, publicKeyHex)
       IN IF LoginKeysMatch(publicKeyHex, Get(calls[c].existing))
          THEN /\ calls' = [calls EXCEPT ![c] =
                     [@ EXCEPT !.keyPair = Some(keyPair), !.pc = "done",
                               !.result = Some(Success(value))]]
               /\ identity' = Some(value)
          ELSE /\ calls' = [calls EXCEPT ![c] =
                     [@ EXCEPT !.keyPair = Some(keyPair), !.pc = "done",
                               !.result = Some(Failure(ErrInvalidPassword))]]
               /\ UNCHANGED identity
    /\ UNCHANGED <<store, db, nputs, registryVars, derivs, hook, overtaken>>

\* Mutant: logout also wipes the registry.
LogoutWipesRegistry ==
    /\ identity' = None
    /\ store' = [u \in Usernames |-> None]
    /\ UNCHANGED <<db, calls, nputs, registryVars, derivs, hook>>

\* useIdentity.logout: setIdentity(null).
Logout ==
    /\ identity' = None
    /\ UNCHANGED <<store, db, calls, nputs, registryVars, derivs, hook>>

Next ==
    \/ \E c \in Calls, u \in Usernames, p \in ArgPasswords : RegisterStart(c, u, p)
    \/ \E c \in Calls : RegisterLookup(c)
    \/ \E c \in Calls : RegisterDerive(c)
    \/ \E c \in Calls : RegistryRegisterGet(c)
    \/ \E c \in Calls : RegistryRegisterPut(c)
    \/ \E c \in Calls : RegisterReturn(c)
    \/ \E c \in Calls, u \in Usernames, p \in ArgPasswords : LoginStart(c, u, p)
    \/ \E c \in Calls : LoginLookup(c)
    \/ \E c \in Calls : LoginDerive(c)
    \/ Logout /\ UNCHANGED overtaken

Spec == Init /\ [][Next]_vars

\* The same program with its caller never overlapping two calls: a register
\* or login starts only when no earlier call is still in flight.
RegisterStartSeq(c, u, p) == InFlight = {} /\ RegisterStart(c, u, p)
LoginStartSeq(c, u, p) == InFlight = {} /\ LoginStart(c, u, p)

NextSeq ==
    \/ \E c \in Calls, u \in Usernames, p \in ArgPasswords : RegisterStartSeq(c, u, p)
    \/ \E c \in Calls : RegisterLookup(c)
    \/ \E c \in Calls : RegisterDerive(c)
    \/ \E c \in Calls : RegistryRegisterGet(c)
    \/ \E c \in Calls : RegistryRegisterPut(c)
    \/ \E c \in Calls : RegisterReturn(c)
    \/ \E c \in Calls, u \in Usernames, p \in ArgPasswords : LoginStartSeq(c, u, p)
    \/ \E c \in Calls : LoginLookup(c)
    \/ \E c \in Calls : LoginDerive(c)
    \/ Logout /\ UNCHANGED overtaken

SpecSeq == Init /\ [][NextSeq]_vars

\* ---------------------------------------------------------------------
\* The life of the registry: Registry.init and Registry.stop, called by the
\* useHeliaNode effect and its cleanup, while register and login are called
\* one at a time.

\* A new Registry: `db = null`, `orbitdb = null`.
InitLife ==
    /\ store = [u \in Usernames |-> None]
    /\ db = FALSE
    /\ identity = None
    /\ calls = [c \in Calls |-> IdleCall]
    /\ nputs = 0
    /\ orbitdb = FALSE
    /\ initpc = "idle"
    /\ stoppc = "idle"
    /\ derivs = <<>>
    /\ hook = HookNew
    /\ overtaken = {}

\* Registry.init is called, up to `await createOrbitDB(...)`.
RegistryInitStart ==
    /\ initpc = "idle"
    /\ initpc' = "create"
    /\ UNCHANGED <<store, db, identity, calls, nputs, orbitdb, stoppc, derivs, hook, overtaken>>

\* createOrbitDB resolves: `this.orbitdb = ...`, then `this.orbitdb.open`.
RegistryInitCreate ==
    /\ initpc = "create"
    /\ orbitdb' = TRUE
    /\ initpc' = "open"
    /\ UNCHANGED <<store, db, identity, calls, nputs, stoppc, derivs, hook, overtaken>>

\* open resolves: `this.db = ...`.
RegistryInitOpen ==
    /\ initpc = "open"
    /\ db' = TRUE
    /\ initpc' = "done"
    /\ UNCHANGED <<store, identity, calls, nputs, orbitdb, stoppc, derivs, hook, overtaken>>

\* Where a Registry.stop call is after its `if (this.orbitdb)`: awaiting
\* `this.orbitdb.stop()`, or returned at once; "early" is a stop that
\* returned before Registry.init was called.
StopCalled ==
    IF orbitdb THEN "stopping" ELSE IF initpc = "idle" THEN "early" ELSE "done"

\* Registry.stop is called: `if (this.orbitdb)`, up to `await
\* this.orbitdb.stop()`.
RegistryStopStart ==
    /\ stoppc = "idle"
    /\ stoppc' = StopCalled
    /\ UNCHANGED <<store, db, identity, calls, nputs, orbitdb, initpc, derivs, hook, overtaken>>

\* orbitdb.stop resolves: `this.orbitdb = null; this.db = null`.
RegistryStopFinish ==
    /\ stoppc = "stopping"
    /\ orbitdb' = FALSE
    /\ db' = FALSE
    /\ stoppc' = "done"
    /\ UNCHANGED <<store, identity, calls, nputs, initpc, derivs, hook, overtaken>>

\* Registry.all is called, up to `await this.db.all()`.
RegistryAllStart(c) ==
    /\ CanStart(c)
    /\ InFlight = {}
    /\ calls' = [calls EXCEPT ![c] =
          IF db
          THEN [@ EXCEPT !.op = "all", !.after = Finished,
                         !.steps = <<"all">>, !.pc = "all"]
          ELSE [@ EXCEPT !.op = "all", !.after = Finished,
                         !.steps = <<"all">>, !.pc = "done",
                         !.thrown = Some(ErrNotInitialized)]]
    /\ UNCHANGED <<store, db, identity, nputs, registryVars, derivs, hook, overtaken>>

\* db.all resolves: the (username, entry) pairs of the store are returned.
RegistryAllReturn(c) ==
    /\ calls[c].op = "all"
    /\ calls[c].pc = "all"
    /\ calls' = [calls EXCEPT ![c] =
          [@ EXCEPT !.pc = "done",
                    !.result = Some({[username |-> u, entry |-> Get(store[u])]
                                       : u \in {v \in Usernames : IsSome(store[v])}})]]
    /\ UNCHANGED <<store, db, identity, nputs, registryVars, derivs, hook, overtaken>>

NextLife ==
    \/ NextSeq
    \/ \E c \in Calls : RegistryAllStart(c)
    \/ \E c \in Calls : RegistryAllReturn(c)
    \/ RegistryInitStart
    \/ RegistryInitCreate
    \/ RegistryInitOpen
    \/ RegistryStopStart
    \/ RegistryStopFinish

SpecLife == InitLife /\ [][NextLife]_vars

\* ------------------------------------------------------------ vocabulary
RegisterDone(c) == calls[c].op = "register" /\ Done(c) /\ IsSome(calls[c].result)
LoginDone(c) == calls[c].op = "login" /\ Done(c) /\ IsSome(calls[c].result)
ResultOf(c) == Get(calls[c].result)
RegisterOk(c) == RegisterDone(c) /\ ResultOf(c).ok
LoginOk(c) == LoginDone(c) /\ ResultOf(c).ok
\* register failed at its own lookup / at the registry's claim.
FailedAtLookup(c) == RegisterDone(c) /\ ~ResultOf(c).ok /\ IsSome(calls[c].existing)
FailedAtClaim(c) == RegisterDone(c) /\ ~ResultOf(c).ok /\ ~IsSome(calls[c].existing)
SameUser(c, d) == calls[c].username = calls[d].username
\* c and d overlapped in time: neither had finished when the other started.
Concurrent(c, d) == c # d /\ c \notin calls[d].after /\ d \notin calls[c].after

\* ----------------------------------------------------------------- claims

\* C1: over any interleaving of register calls, at most one call per username
\* ever returns ok (of two racing register(u, p1), register(u, p2) exactly one
\* is accepted).
C1_AtMostOneOkPerUsername ==
    \A c, d \in Calls :
        (RegisterOk(c) /\ RegisterOk(d) /\ SameUser(c, d)) => c = d

\* C2: once the registry holds an entry for a username, its publicKey and
\* salt are the same in every later state.
C2_EntryImmutable ==
    [][\A u \in Usernames :
          IsSome(store[u]) =>
              /\ IsSome(store'[u])
              /\ Get(store'[u]).publicKey = Get(store[u]).publicKey
              /\ Get(store'[u]).salt = Get(store[u]).salt]_vars

\* C3: Registry.register checks and writes in one indivisible step: while a
\* call is between its db.get and its db.put, no db.get or db.put of another
\* call for that username takes effect.
C3_ClaimIndivisible ==
    [][\A c, d \in Calls :
          (/\ c # d
           /\ calls[c].pc = "claim_put"
           /\ SameUser(c, d)
           /\ calls[d].pc \in {"lookup", "claim_get", "claim_put"})
          => calls'[d].pc = calls[d].pc]_vars

\* C4: after two concurrent register(u, p1), register(u, p2) with p1 # p2 have
\* both completed, a later login(u, p) succeeds only with the password of the
\* one register call that returned ok, and fails with 'Invalid password' for
\* the password of the call that did not return ok.
C4_LoginOnlyWinner ==
    \A l, r1, r2 \in Calls :
        (/\ LoginDone(l)
         /\ RegisterDone(r1) /\ RegisterDone(r2) /\ Concurrent(r1, r2)
         /\ {r1, r2} \subseteq calls[l].after
         /\ SameUser(l, r1) /\ SameUser(l, r2)
         /\ calls[r1].password # calls[r2].password)
        => /\ LoginOk(l) =>
                \E w \in {r1, r2} :
                    /\ RegisterOk(w)
                    /\ calls[w].password = calls[l].password
                    /\ \A o \in {r1, r2} \ {w} : ~RegisterOk(o)
           /\ \A o \in {r1, r2} :
                (~RegisterOk(o) /\ calls[o].password = calls[l].password)
                => ResultOf(l) = Failure("Invalid password")

\* C5: register(u, p) returned ok, no db.put took effect after it returned,
\* and login(u, p) was called next: login returns ok with register's
\* publicKeyHex.
C5_RoundTrip ==
    \A l, r \in Calls :
        (/\ LoginDone(l) /\ RegisterOk(r)
         /\ r \in calls[l].after
         /\ SameUser(l, r)
         /\ calls[l].password = calls[r].password
         /\ calls[l].puts = calls[r].puts)
        => /\ LoginOk(l)
           /\ Get(ResultOf(l).value).publicKeyHex = Get(ResultOf(r).value).publicKeyHex

\* C6: login returns ok exactly when the lookup found an entry and the hex
\* public key derived from the password and the entry's salt equals the
\* entry's publicKey; with an entry and a different key it fails with
\* 'Invalid password'; the salt given to the derivation is the entry's, and
\* the entry is one a register call wrote.
C6_LoginDecision ==
    \A l \in Calls :
        LoginDone(l) =>
            LET found == calls[l].existing IN
            IF ~IsSome(found)
            THEN ~ResultOf(l).ok
            ELSE LET entry == Get(found)
                     derived == [base16 |-> [ed25519pub |-> [argon2id |->
                                   [password |-> [utf8 |-> calls[l].password],
                                    salt |-> entry.salt.base64]]]]
                 IN /\ calls[l].salt = Some(entry.salt)
                    /\ ResultOf(l).ok <=> (derived = entry.publicKey)
                    /\ ResultOf(l).ok =>
                          Get(ResultOf(l).value).publicKeyHex = entry.publicKey
                    /\ ~ResultOf(l).ok => ResultOf(l) = Failure("Invalid password")
                    /\ \E r \in Calls :
                          /\ calls[r].op = "register"
                          /\ calls[r].pc \in {"claim_ret", "done"}
                          /\ calls[r].entry = Some(entry)

\* C6 witness: one login has returned ok and another 'Invalid password', both
\* against an entry.
C6_Witness ==
    \E l, m \in Calls :
        /\ LoginOk(l)
        /\ LoginDone(m) /\ IsSome(calls[m].existing)
        /\ ResultOf(m) = Failure("Invalid password")

\* C7: after register(u, p) returned ok, a login(u, p') with p' # p fails with
\* 'Invalid password' and yields no IdentityState.
C7_WrongPasswordRejected ==
    \A l, r \in Calls :
        (/\ LoginDone(l) /\ RegisterOk(r)
         /\ r \in calls[l].after
         /\ SameUser(l, r)
         /\ calls[l].password # calls[r].password)
        => ResultOf(l) = Failure("Invalid password")

\* C8: a login whose lookup finds no entry fails with 'Username not found',
\* never with 'Invalid password', and derives no key: the derivation is only
\* ever pending or done for a login that found an entry.
C8_UnknownUsername ==
    \A l \in Calls :
        calls[l].op = "login" =>
            /\ (LoginDone(l) /\ ~IsSome(calls[l].existing)) =>
                  /\ ResultOf(l) = [ok |-> FALSE, error |-> "Username not found",
                                    value |-> None]
                  /\ calls[l].keyPair = None
                  /\ calls[l].salt = None
            /\ (calls[l].pc = "derive" \/ IsSome(calls[l].keyPair)) =>
                  IsSome(calls[l].existing)

\* C8 witness: a login for a username without an entry has returned.
C8_Witness ==
    \E l \in Calls :
        /\ LoginDone(l)
        /\ ~IsSome(calls[l].existing)
        /\ store[calls[l].username] = None

\* C9: with no two calls overlapping, a register(u, p2) called after a
\* register(u, p) that returned ok fails with 'Username already taken', and
\* the entry of u is exactly the one the first call stored.
C9_SecondRegisterFails ==
    \A r1, r2 \in Calls :
        (/\ RegisterOk(r1) /\ RegisterDone(r2)
         /\ r1 \in calls[r2].after
         /\ SameUser(r1, r2))
        => /\ ResultOf(r2) = [ok |-> FALSE, error |-> "Username already taken",
                              value |-> None]
           /\ store[calls[r1].username] = calls[r1].entry

\* C9 witness: a second register for the username, with another password, has
\* returned after the first one succeeded.
C9_Witness ==
    \E r1, r2 \in Calls :
        /\ RegisterOk(r1) /\ RegisterDone(r2)
        /\ r1 \in calls[r2].after
        /\ SameUser(r1, r2)
        /\ calls[r1].password # calls[r2].password

CallerCancel(c) ==
    /\ c \in InFlight
    /\ ~calls[c].cancelled
    /\ calls' = [calls EXCEPT ![c] = [@ EXCEPT !.cancelled = TRUE]]
    /\ UNCHANGED <<store, db, identity, nputs, registryVars, derivs, hook, overtaken>>

NextCancel ==
    \/ NextSeq
    \/ \E c \in Calls : CallerCancel(c)

SpecCancel == Init /\ [][NextCancel]_vars

\* C14: a register or login call that its caller gave up on while it was
\* pending does not set the session IdentityState afterwards.
C14_CancelledSetsNothing ==
    [][\A c \in Calls :
          calls[c].cancelled /\ calls'[c] # calls[c] => identity' = identity]_vars

\* ---------------------------------------------------------------------
\* deriveKeyPair called on its own, by two callers at once, on arguments
\* drawn from the usernames, passwords and salts.

Derivers == {"first", "second"}
DeriveUsernames == {"alice", "bob"}
DeriveSalts == {GenerateSalt(c) : c \in Calls}

InitDerive ==
    /\ store = [u \in Usernames |-> None]
    /\ db = TRUE
    /\ identity = None
    /\ calls = [c \in Calls |-> IdleCall]
    /\ nputs = 0
    /\ orbitdb = TRUE
    /\ initpc = "done"
    /\ stoppc = "idle"
    /\ hook = HookReady
    /\ overtaken = {}
    /\ derivs \in [Derivers ->
          [username : DeriveUsernames, password : Passwords, salt : DeriveSalts,
           pc : {"idle"}, keyPair : {None}]]

\* deriveKeyPair is called, up to `await argon2id(...)`.
DeriveKeyPairCall(d) ==
    /\ derivs[d].pc = "idle"
    /\ derivs' = [derivs EXCEPT ![d] = [@ EXCEPT !.pc = "argon2id"]]
    /\ UNCHANGED <<store, db, identity, calls, nputs, registryVars, hook, overtaken>>

\* argon2id and generateEd25519FromSeed resolve: deriveKeyPair returns.
DeriveKeyPairReturn(d) ==
    /\ derivs[d].pc = "argon2id"
    /\ derivs' = [derivs EXCEPT ![d] =
          [@ EXCEPT !.pc = "done",
                    !.keyPair = Some(DeriveKeyPair(derivs[d].username,
                                                   derivs[d].password,
                                                   derivs[d].salt))]]
    /\ UNCHANGED <<store, db, identity, calls, nputs, registryVars, hook, overtaken>>

NextDerive ==
    \/ \E d \in Derivers : DeriveKeyPairCall(d)
    \/ \E d \in Derivers : DeriveKeyPairReturn(d)

SpecDerive == InitDerive /\ [][NextDerive]_vars

\* ---------------------------------------------------------------------
\* App: the useHeliaNode effect (initNode) and its cleanup, the identity modal
\* and the register / login calls made from it, over the registry singleton.

InitHook ==
    /\ store = [u \in Usernames |-> None]
    /\ db = FALSE
    /\ identity = None
    /\ calls = [c \in Calls |-> IdleCall]
    /\ nputs = 0
    /\ orbitdb = FALSE
    /\ initpc = "idle"
    /\ stoppc = "idle"
    /\ derivs = <<>>
    /\ hook = HookNew
    /\ overtaken = {}

\* The effect runs after the first render: initRef is set and initNode is
\* called, up to `await createLibp2p(...)`. The cleanup it returns closes
\* over the `helia` of that render.
EffectRun ==
    /\ hook.pc = "idle"
    /\ hook.mounted
    /\ hook' = [hook EXCEPT !.pc = "libp2p", !.closureHelia = hook.helia]
    /\ UNCHANGED <<store, db, identity, calls, nputs, registryVars, derivs, overtaken>>

\* createLibp2p resolves: createHelia is called.
CreateLibp2pResolves ==
    /\ hook.pc = "libp2p"
    /\ hook' = [hook EXCEPT !.pc = "helia"]
    /\ UNCHANGED <<store, db, identity, calls, nputs, registryVars, derivs, overtaken>>

\* Mutant: initNode announces the registry as soon as the node exists.
CreateHeliaResolvesReadyEarly ==
    /\ hook.pc = "helia"
    /\ initpc = "idle"
    /\ hook' = [hook EXCEPT !.pc = "registry", !.helia = TRUE, !.peerId = TRUE,
                            !.isReady = TRUE, !.registryReady = TRUE]
    /\ initpc' = "create"
    /\ UNCHANGED <<store, db, identity, calls, nputs, orbitdb, stoppc, derivs, overtaken>>

\* createHelia resolves: setHelia, setPeerId, setIsReady; registry.init(node)
\* is called, up to `await createOrbitDB(...)`.
CreateHeliaResolves ==
    /\ hook.pc = "helia"
    /\ initpc = "idle"
    /\ hook' = [hook EXCEPT !.pc = "registry", !.helia = TRUE, !.peerId = TRUE,
                            !.isReady = TRUE]
    /\ initpc' = "create"
    /\ UNCHANGED <<store, db, identity, calls, nputs, orbitdb, stoppc, derivs, overtaken>>

\* createLibp2p or createHelia rejects: the catch block calls setError.
CreateRejects ==
    /\ hook.pc \in {"libp2p", "helia"}
    /\ hook' = [hook EXCEPT !.pc = "failed", !.error = TRUE]
    /\ UNCHANGED <<store, db, identity, calls, nputs, registryVars, derivs, overtaken>>

\* createOrbitDB or orbitdb.open rejects: Registry.init rejects.
RegistryInitRejects ==
    /\ initpc \in {"create", "open"}
    /\ initpc' = "failed"
    /\ UNCHANGED <<store, db, identity, calls, nputs, orbitdb, stoppc, derivs, hook, overtaken>>

\* `await registry.init(node)` resolves: setRegistryReady(true).
InitNodeRegistryReady ==
    /\ hook.pc = "registry"
    /\ initpc = "done"
    /\ hook' = [hook EXCEPT !.pc = "done", !.registryReady = TRUE]
    /\ UNCHANGED <<store, db, identity, calls, nputs, registryVars, derivs, overtaken>>

\* `await registry.init(node)` rejects: the catch block calls setError.
InitNodeRegistryFailed ==
    /\ hook.pc = "registry"
    /\ initpc = "failed"
    /\ hook' = [hook EXCEPT !.pc = "failed", !.error = TRUE]
    /\ UNCHANGED <<store, db, identity, calls, nputs, registryVars, derivs, overtaken>>

\* The cleanup of the effect (unmount): registry.stop() is called, up to
\* `await this.orbitdb.stop()`; `if (helia) helia.stop()` reads the helia its
\* closure holds. The modal goes with App.
Cleanup ==
    /\ hook.mounted
    /\ hook.pc # "idle"
    /\ stoppc = "idle"
    /\ hook' = [hook EXCEPT !.mounted = FALSE, !.showIdentityModal = FALSE,
                            !.heliaStopped = hook.closureHelia]
    /\ stoppc' = StopCalled
    /\ UNCHANGED <<store, db, identity, calls, nputs, orbitdb, initpc, derivs, overtaken>>

\* App.handleConnectClick: `if (!registryReady) return`, else the modal opens.
HandleConnectClick ==
    /\ hook.mounted
    /\ hook' = [hook EXCEPT !.showIdentityModal = hook.registryReady \/ @]
    /\ UNCHANGED <<store, db, identity, calls, nputs, registryVars, derivs, overtaken>>

\* IdentityModal onClose: setShowIdentityModal(false).
ModalClose ==
    /\ hook.showIdentityModal
    /\ hook' = [hook EXCEPT !.showIdentityModal = FALSE]
    /\ UNCHANGED <<store, db, identity, calls, nputs, registryVars, derivs, overtaken>>

\* IdentityModal.handleSubmit: the modal is open and no call of it is
\* pending (the submit button is disabled while loading).
ModalRegister(c, u, p) ==
    hook.mounted /\ hook.showIdentityModal /\ RegisterStartSeq(c, u, p)
ModalLogin(c, u, p) ==
    hook.mounted /\ hook.showIdentityModal /\ LoginStartSeq(c, u, p)

NextHook ==
    \/ EffectRun
    \/ CreateLibp2pResolves
    \/ CreateHeliaResolves
    \/ CreateRejects
    \/ RegistryInitCreate
    \/ RegistryInitOpen
    \/ RegistryInitRejects
    \/ InitNodeRegistryReady
    \/ InitNodeRegistryFailed
    \/ Cleanup
    \/ RegistryStopFinish
    \/ HandleConnectClick
    \/ ModalClose
    \/ \E c \in Calls, u \in Usernames, p \in ArgPasswords : ModalRegister(c, u, p)
    \/ \E c \in Calls : RegisterLookup(c)
    \/ \E c \in Calls : RegisterDerive(c)
    \/ \E c \in Calls : RegistryRegisterGet(c)
    \/ \E c \in Calls : RegistryRegisterPut(c)
    \/ \E c \in Calls : RegisterReturn(c)
    \/ \E c \in Calls, u \in Usernames, p \in ArgPasswords : ModalLogin(c, u, p)
    \/ \E c \in Calls : LoginLookup(c)
    \/ \E c \in Calls : LoginDerive(c)
    \/ Logout /\ UNCHANGED overtaken

SpecHook == InitHook /\ [][NextHook]_vars

\* ---------------------------------------------------------------------
\* The program of Spec, with each logout recording the calls it overtook.

LogoutOvertaking ==
    /\ Logout
    /\ overtaken' = overtaken \cup InFlight

NextOvertaking ==
    \/ \E c \in Calls, u \in Usernames, p \in ArgPasswords : RegisterStart(c, u, p)
    \/ \E c \in Calls : RegisterLookup(c)
    \/ \E c \in Calls : RegisterDerive(c)
    \/ \E c \in Calls : RegistryRegisterGet(c)
    \/ \E c \in Calls : RegistryRegisterPut(c)
    \/ \E c \in Calls : RegisterReturn(c)
    \/ \E c \in Calls, u \in Usernames, p \in ArgPasswords : LoginStart(c, u, p)
    \/ \E c \in Calls : LoginLookup(c)
    \/ \E c \in Calls : LoginDerive(c)
    \/ LogoutOvertaking

SpecOvertaking == Init /\ [][NextOvertaking]_vars

\* C11: a register or login call that met a failing registry call (the
\* registry not initialized yet, or already stopped) completes with a
\* failure Result; no exception escapes to the caller.
C11_NoExceptionEscapes ==
    \A c \in Calls :
        Done(c) =>
            /\ calls[c].thrown = None
            /\ IsSome(calls[c].result)

\* Number of times a step occurs in the history of a call.
Count(steps, step) == Cardinality({i \in DOMAIN steps : steps[i] = step})

\* C12: no operation retries: every register call that was made has performed
\* exactly one registry lookup and at most one claim (writeFn call), every
\* login call exactly one lookup and no claim, whatever its outcome.
C12_NoRetry ==
    \A c \in Started :
        /\ Count(calls[c].steps, "lookup") = 1
        /\ Count(calls[c].steps, "claim") <= 1
        /\ calls[c].op = "login" => Count(calls[c].steps, "claim") = 0
C12_Witness ==
    /\ \E c \in Calls : RegisterOk(c) /\ Count(calls[c].steps, "claim") = 1
    /\ \E c \in Calls : FailedAtClaim(c) /\ Count(calls[c].steps, "claim") = 1
    /\ \E c \in Calls : LoginDone(c) /\ Count(calls[c].steps, "lookup") = 1

\* What useIdentity returns about the session.
IsAuthenticated == identity # None
SessionUsername == IF IsSome(identity) THEN Some(Get(identity).username) ELSE None
PublicKeyShort ==
    IF IsSome(identity) THEN Some(ShortKey(Get(identity).keyPair.publicKey))
    ELSE None

\* C13: logout can be called in every session state and completes; it
\* leaves the session unauthenticated (identity, username and publicKeyShort
\* null), makes no registry call and leaves the registry unchanged.
C13_Logout ==
    /\ [](ENABLED Logout)
    /\ [][Logout =>
            /\ ~IsAuthenticated' /\ SessionUsername' = None
            /\ PublicKeyShort' = None
            /\ store' = store /\ nputs' = nputs /\ calls' = calls
            /\ db' = db /\ orbitdb' = orbitdb]_vars
C13_Witness ==
    /\ ~IsAuthenticated /\ SessionUsername = None /\ PublicKeyShort = None
    /\ \E c \in Calls : RegisterOk(c)
    /\ \E c \in Calls : LoginOk(c)
    /\ store["alice"] # None

\* C15: register and login called with an empty password are rejected before
\* the derivation engine is invoked: deriveKeyPair is never called with an
\* empty password and no claim is made for it.
C15_EmptyPasswordRejected ==
    \A c \in Started :
        calls[c].password = EmptyPassword =>
            /\ Count(calls[c].steps, "deriveKeyPair") = 0
            /\ Count(calls[c].steps, "claim") = 0

\* The entries in the registry and the entries proposed to it by register.
StoredEntries == {Get(store[u]) : u \in {v \in Usernames : IsSome(store[v])}}
ProposedEntries ==
    {Get(calls[c].entry) : c \in {d \in Calls : IsSome(calls[d].entry)}}
\* The passwords given to the calls and the private keys derived from them,
\* as bytes and as hex strings.
SecretValues ==
    UNION {{TextEncode(calls[c].password), ToHex(TextEncode(calls[c].password))}
             : c \in Started}
    \cup UNION {{Get(calls[c].keyPair).privateKey,
                 ToHex(Get(calls[c].keyPair).privateKey)}
                  : c \in {d \in Calls : IsSome(calls[d].keyPair)}}

\* C16: no registry entry and no entry proposed to the registry contains a
\* private key or a password: an entry consists of the hex public key, the
\* salt, profileCid = null and createdAt only; the key pair is held by the
\* IdentityState alone.
C16_NoSecretInEntries ==
    /\ \A e \in StoredEntries \cup ProposedEntries :
          /\ DOMAIN e = {"publicKey", "salt", "profileCid", "createdAt"}
          /\ e.profileCid = None
          /\ \A f \in {"publicKey", "salt", "createdAt"} : e[f] \notin SecretValues
          /\ \E c \in Calls :
                /\ IsSome(calls[c].keyPair)
                /\ e.publicKey = ToHex(Get(calls[c].keyPair).publicKey)
    /\ IsSome(identity) =>
          DOMAIN Get(identity) = {"username", "keyPair", "publicKeyHex"}
C16_Witness ==
    /\ StoredEntries # {}
    /\ \E c \in Calls : RegisterOk(c) /\ Get(calls[c].entry) \in StoredEntries
    /\ \E c \in Calls : FailedAtClaim(c) /\ Get(calls[c].entry) \notin StoredEntries
    /\ IsSome(identity)

RegisterSteps == <<"lookup", "generateSalt", "deriveKeyPair", "claim">>
IsPrefix(s, t) == Len(s) <= Len(t) /\ SubSeq(t, 1, Len(s)) = s

\* C19: within every register call the steps occur in the order lookup,
\* salt generation, derivation, claim; the claim is invoked only after the
\* lookup returned absent, and a call whose lookup returned an entry fails
\* without generating a salt, deriving a key or invoking the claim.
C19_RegisterStepOrder ==
    \A c \in Calls :
        calls[c].op = "register" =>
            /\ IsPrefix(calls[c].steps, RegisterSteps)
            /\ Count(calls[c].steps, "claim") > 0 =>
                  calls[c].pc # "lookup" /\ ~IsSome(calls[c].existing)
            /\ IsSome(calls[c].existing) =>
                  /\ FailedAtLookup(c)
                  /\ calls[c].steps = <<"lookup">>
                  /\ calls[c].salt = None
                  /\ calls[c].keyPair = None
                  /\ calls[c].entry = None
C19_Witness ==
    /\ \E c \in Calls : calls[c].op = "register" /\ calls[c].steps = RegisterSteps
    /\ \E c \in Calls : FailedAtLookup(c) /\ calls[c].steps = <<"lookup">>

\* Registry.register of call c returns false / true in this step.
ReturnsFalse(c) == calls[c].pc = "claim_get" /\ calls'[c].pc = "done"
ReturnsTrue(c) == calls[c].pc = "claim_ret" /\ calls'[c].pc = "done"

\* C20: a Registry.register call that returns false performs no put and
\* leaves every entry of the store unchanged; a call that returns true
\* performed exactly one put, of the given entry under the given username.
C20_ClaimFrame ==
    /\ [](\A c \in Calls :
            /\ FailedAtClaim(c) => calls[c].wrote = <<>>
            /\ RegisterOk(c) =>
                  calls[c].wrote = <<<<calls[c].username, Get(calls[c].entry)>>>>)
    /\ [][\A c \in Calls :
            /\ ReturnsFalse(c) =>
                  store' = store /\ nputs' = nputs /\ calls'[c].wrote = <<>>
            /\ ReturnsTrue(c) =>
                  store' = store /\ nputs' = nputs /\ Len(calls'[c].wrote) = 1]_vars
C20_Witness ==
    /\ \E c \in Calls : FailedAtClaim(c) /\ calls[c].wrote = <<>>
    /\ \E c \in Calls : RegisterOk(c) /\ Len(calls[c].wrote) = 1

\* Call c completes in this step, with an ok result / with a failure.
CompletesOk(c) ==
    /\ calls[c].pc # "done" /\ calls'[c].pc = "done"
    /\ IsSome(calls'[c].result) /\ Get(calls'[c].result).ok
CompletesFailed(c) ==
    /\ calls[c].pc # "done" /\ calls'[c].pc = "done"
    /\ IsSome(calls'[c].result) /\ ~Get(calls'[c].result).ok

\* C21: the session identity changes only in two ways: a login or register
\* call that returns ok sets it to that call's IdentityState, and logout
\* sets it to null. A call that fails leaves it exactly as it was.
C21_IdentityFrame ==
    [][/\ identity' # identity =>
            \/ identity' = None /\ calls' = calls
            \/ \E c \in Calls :
                  CompletesOk(c) /\ identity' = Get(calls'[c].result).value
       /\ \A c \in Calls :
            /\ CompletesOk(c) => identity' = Get(calls'[c].result).value
            /\ CompletesFailed(c) => identity' = identity]_vars
C21_Witness ==
    \E c, d \in Calls :
        /\ RegisterOk(c) /\ c \in calls[d].after
        /\ Done(d) /\ IsSome(calls[d].result) /\ ~ResultOf(d).ok
        /\ identity = ResultOf(c).value

\* Call c invokes a method of the Registry in this step.
RegistryMethods == {"lookup", "claim", "all"}
Invokes(c) ==
    \E m \in RegistryMethods : calls'[c].steps = calls[c].steps \o <<m>>

\* C22: whenever the db handle of the Registry is null, lookup, register and
\* all each fail with the 'Registry not initialized' error and perform no
\* read or write on the store: the call ends at once, no db.get, db.put or
\* db.all becomes pending and the store is unchanged.
C22_NullDbFails ==
    [][\A c \in Calls :
          ~db /\ Invokes(c) =>
              /\ calls'[c].pc = "done"
              /\ calls'[c].thrown = Some(ErrNotInitialized)
              /\ calls'[c].result = None
              /\ calls'[c].wrote = calls[c].wrote
              /\ calls'[c].existing = calls[c].existing
              /\ store' = store /\ nputs' = nputs]_vars
C22_Witness ==
    /\ \E c \in Calls : calls[c].steps = <<"lookup">> /\ IsSome(calls[c].thrown)
    /\ \E c \in Calls : calls[c].steps = <<"all">> /\ IsSome(calls[c].thrown)
    /\ \E c \in Calls : calls[c].steps = RegisterSteps /\ IsSome(calls[c].thrown)

\* C23: registryReady is true only after registry.init has resolved
\* successfully, and implies isReady, a helia node and a peerId; when an
\* initialization step has failed, error is set and registryReady is and
\* stays false.
C23_RegistryReady ==
    /\ [](/\ hook.registryReady =>
               initpc = "done" /\ hook.isReady /\ hook.helia /\ hook.peerId
          /\ hook.pc = "failed" => hook.error /\ ~hook.registryReady
          /\ hook.error => ~hook.registryReady)
    /\ [][hook.error => hook'.error /\ ~hook'.registryReady]_vars
C23_Witness ==
    /\ hook.registryReady /\ hook.isReady /\ hook.helia /\ hook.peerId
    /\ initpc = "done" /\ db

\* C24: when the effect is cleaned up after the Helia node has been created,
\* the cleanup stops the registry and also stops the Helia node.
C24_CleanupStopsHelia ==
    [][hook.mounted /\ ~hook'.mounted /\ hook.helia =>
          stoppc' # "idle" /\ hook'.heliaStopped]_vars

\* C25: under every interleaving of Registry.init and Registry.stop the
\* Registry never holds a db handle without an orbitdb instance, and once a
\* stop issued after init started has completed and init has finished, db
\* is null.
C25_InitStop ==
    /\ db => orbitdb
    /\ stoppc = "done" /\ initpc = "done" => ~db

\* C26: a login or register call that was in flight when logout ran does not
\* make the session authenticated when it completes: identity is set only
\* by calls started after the last logout.
C26_LogoutHolds ==
    [][\A c \in overtaken :
          calls'[c] # calls[c] => (identity = None => identity' = None)]_vars

\* C27: every IdentityState obtained from a register call that returned ok
\* stays consistent with the registry: whenever no put is pending on the
\* store, the entry of that username has publicKey equal to the
\* IdentityState's publicKeyHex.
C27_IdentityMatchesRegistry ==
    \A c \in Calls :
        RegisterOk(c) /\ (\A d \in Calls : calls[d].pc # "claim_put") =>
            /\ IsSome(store[calls[c].username])
            /\ Get(store[calls[c].username]).publicKey =
                   Get(ResultOf(c).value).publicKeyHex

\* C28: the identity modal is open only while registryReady is true, and no
\* login or register started from the modal fails with 'Registry not
\* initialized'.
C28_ModalNeverUninitialized ==
    /\ hook.showIdentityModal => hook.registryReady
    /\ \A c \in Calls : calls[c].thrown # Some(ErrNotInitialized)
====
